---- MODULE Spec2Model ----
(***************************************************************************)
(* A model of sse.py: the two-step "SecureFlow" Streamlit script.          *)
(*                                                                         *)
(*  - verify_direction (sse.py:34-104), the direction classifier, is       *)
(*    modelled as operators over a pixel buffer, one operator per step of  *)
(*    the function (uint8 conversion, grayscale, inverted threshold,       *)
(*    findNonZero, boundingRect, crop, moments, truncated centroid, axis   *)
(*    and polarity decision, verdict).                                     *)
(*  - the script body (sse.py:25-31, 106-203) is modelled as a state       *)
(*    machine over st.session_state, the widgets' values and what the last *)
(*    script run rendered; every action is one script run.                 *)
(*                                                                         *)
(* Pixel coordinates are 0-based, x to the right and y downwards, as in    *)
(* the numpy array img[y][x].                                              *)
(***************************************************************************)
EXTENDS Integers, Sequences, FiniteSets, TLC

VARIABLES
    step,              \* st.session_state.step
    elapsed,           \* time.time() - st.session_state.start_time, in ticks
    target_direction,  \* st.session_state.target_direction
    fields,            \* which of name, email, phone are non-empty
    image_data,        \* canvas_result.image_data / the canvas_data argument
    clicked,           \* the button whose press started the last script run
    calls,             \* verify_direction calls made by the last script run
    frame,             \* what the last verify_direction call returned, and its locals
    shown              \* the status elements the last script run rendered

vars == <<step, elapsed, target_direction, fields, image_data, clicked, calls,
          frame, shown>>

(***************************************************************************)
(* Program constants                                                       *)
(***************************************************************************)
ThreshValue == 100
MaxVal == 255
SizeFloor == 30
CanvasWidth == 300
CanvasHeight == 300
\* Time in ticks of half a second: the 2.0 s gate of line 130, and the
\* time.sleep(1) and time.sleep(0.5) of lines 135 and 137.
GateTicks == 4
SleepTicks == 3

Directions == {"Left", "Right", "Up", "Down"}

\* Python's None where a buffer is expected: a value that is no buffer
None == [none |-> TRUE]
\* what a local of verify_direction holds before it is assigned
NoValue == 0 - 1

(***************************************************************************)
(* Pixel buffers.  A buffer is a white surface of w x h pixels with ch     *)
(* channels on which filled primitives are painted in order, each with one *)
(* colour <<r, g, b, a>>; the classifier reads it pixel by pixel.          *)
(*   "rect": the pixels with x0 <= x <= x1 and y0 <= y <= y1;              *)
(*   "tri" : the solid triangle pointing right with base corners (x0, y0), *)
(*           (x0, y1) and apex (x1, (y0 + y1) / 2).                        *)
(***************************************************************************)
White   == <<255, 255, 255, 255>>
Black   == <<0, 0, 0, 255>>
Gray100 == <<100, 100, 100, 255>>
Gray101 == <<101, 101, 101, 255>>
Red     == <<255, 0, 0, 255>>
Green   == <<0, 255, 0, 255>>
Clear   == <<0, 0, 0, 0>>

Rect(x0, y0, x1, y1, c) == [k |-> "rect", x0 |-> x0, y0 |-> y0, x1 |-> x1, y1 |-> y1, c |-> c]
Tri(x0, y0, x1, y1, c) == [k |-> "tri", x0 |-> x0, y0 |-> y0, x1 |-> x1, y1 |-> y1, c |-> c]
Buffer(w, h, ch, prims) == [w |-> w, h |-> h, ch |-> ch, prims |-> prims]

Abs(n) == IF n < 0 THEN -n ELSE n

Covers(p, x, y) ==
    IF p.k = "rect"
    THEN p.x0 <= x /\ x <= p.x1 /\ p.y0 <= y /\ y <= p.y1
    ELSE /\ p.x0 <= x /\ x <= p.x1
         /\ Abs(2 * y - (p.y0 + p.y1)) * (p.x1 - p.x0) <= (p.y1 - p.y0) * (p.x1 - x)

RECURSIVE Paint(_, _, _, _)
Paint(prims, i, x, y) ==
    IF i = 0 THEN White
    ELSE IF Covers(prims[i], x, y) THEN prims[i].c
    ELSE Paint(prims, i - 1, x, y)

\* canvas_data[y][x]: the pixel's ch channel values
PixelAt(canvas_data, x, y) ==
    SubSeq(Paint(canvas_data.prims, Len(canvas_data.prims), x, y), 1, canvas_data.ch)

(***************************************************************************)
(* verify_direction, step by step                                          *)
(***************************************************************************)
\* np.array(canvas_data).astype('uint8'), one channel value
AsUint8(v) == v % 256

\* cv2.cvtColor(img, COLOR_RGBA2GRAY | COLOR_RGB2GRAY) on one pixel: the 8-bit
\* fixed-point luminance of the first three channels; a fourth is dropped.
cvtColorGray(px) ==
    (AsUint8(px[1]) * 9798 + AsUint8(px[2]) * 19235 + AsUint8(px[3]) * 3735 + 16384)
        \div 32768

GrayAt(canvas_data, x, y) == cvtColorGray(PixelAt(canvas_data, x, y))

\* cv2.threshold(gray, 100, 255, cv2.THRESH_BINARY_INV) on one pixel
ThresholdBinary(g) == IF g > ThreshValue THEN MaxVal ELSE 0
ThresholdInvStrict(g) == IF g >= ThreshValue THEN 0 ELSE MaxVal
ThresholdBinaryInv(g) == IF g > ThreshValue THEN 0 ELSE MaxVal

ThreshAt(canvas_data, x, y) == ThresholdBinaryInv(GrayAt(canvas_data, x, y))

\* cv2.findNonZero(thresh): the set of (x, y) with a non-zero value; the empty
\* set stands for the None that OpenCV returns when there is none.
findNonZero(canvas_data) ==
    {p \in (0 .. canvas_data.w - 1) \X (0 .. canvas_data.h - 1) :
        ThreshAt(canvas_data, p[1], p[2]) # 0}

SetMin(S) == CHOOSE a \in S : \A b \in S : a <= b
SetMax(S) == CHOOSE a \in S : \A b \in S : a >= b

\* cv2.boundingRect(points)
boundingRect(points) ==
    LET xs == {p[1] : p \in points}
        ys == {p[2] : p \in points}
    IN [x |-> SetMin(xs), y |-> SetMin(ys),
        w |-> SetMax(xs) - SetMin(xs) + 1, h |-> SetMax(ys) - SetMin(ys) + 1]

\* roi = thresh[y:y+h, x:x+w], read at column i and row j of the crop
RoiSwapped(canvas_data, r, i, j) == ThreshAt(canvas_data, r.y + i, r.x + j)
Roi(canvas_data, r, i, j) == ThreshAt(canvas_data, r.x + i, r.y + j)

\* cv2.moments(roi): m00 = sum I, m10 = sum i * I, m01 = sum j * I over the
\* crop, summed row by row (each row and the rows themselves by halving).
RECURSIVE RowMoments(_, _, _, _, _)
RowMoments(canvas_data, r, j, lo, hi) ==
    IF lo > hi THEN <<0, 0>>
    ELSE IF lo = hi
    THEN LET I == Roi(canvas_data, r, lo, j) IN <<I, lo * I>>
    ELSE LET mid == (lo + hi) \div 2
             a == RowMoments(canvas_data, r, j, lo, mid)
             b == RowMoments(canvas_data, r, j, mid + 1, hi)
         IN <<a[1] + b[1], a[2] + b[2]>>

RECURSIVE RowsMoments(_, _, _, _)
RowsMoments(canvas_data, r, lo, hi) ==
    IF lo > hi THEN <<0, 0, 0>>
    ELSE IF lo = hi
    THEN LET s == RowMoments(canvas_data, r, lo, 0, r.w - 1)
         IN <<s[1], s[2], lo * s[1]>>
    ELSE LET mid == (lo + hi) \div 2
             a == RowsMoments(canvas_data, r, lo, mid)
             b == RowsMoments(canvas_data, r, mid + 1, hi)
         IN <<a[1] + b[1], a[2] + b[2], a[3] + b[3]>>

moments(canvas_data, r) ==
    LET m == RowsMoments(canvas_data, r, 0, r.h - 1)
    IN [m00 |-> m[1], m10 |-> m[2], m01 |-> m[3]]

\* int(a / b) for a >= 0, b > 0: Python's true division, truncated
IntDiv(a, b) == a \div b

\* the size check of line 68
TooTinyAnd(w, h) == w < SizeFloor /\ h < SizeFloor
TooTiny(w, h) == w < SizeFloor \/ h < SizeFloor

\* the axis and polarity decision of lines 88-98; cX > w / 2 is 2 * cX > w
DecideFlipped(w, h, cX, cY) ==
    IF w > h
    THEN IF 2 * cX < w THEN "Right" ELSE "Left"
    ELSE IF 2 * cY < h THEN "Down" ELSE "Up"
DecideTieHorizontal(w, h, cX, cY) ==
    IF w >= h
    THEN IF 2 * cX > w THEN "Right" ELSE "Left"
    ELSE IF 2 * cY > h THEN "Down" ELSE "Up"
Decide(w, h, cX, cY) ==
    IF w > h
    THEN IF 2 * cX > w THEN "Right" ELSE "Left"
    ELSE IF 2 * cY > h THEN "Down" ELSE "Up"

\* lines 101-104: the final verdict, the message as the parts the f-string joins
FinalVerdictNoTarget(detected_direction, target) ==
    IF detected_direction = target
    THEN [is_match |-> TRUE, line |-> 102,
          msg |-> <<"Verified! You drew ", detected_direction, ".">>]
    ELSE [is_match |-> FALSE, line |-> 104,
          msg |-> <<"Error: You drew ", detected_direction,
                    ", but we expected ", detected_direction, ".">>]
FinalVerdict(detected_direction, target) ==
    IF detected_direction = target
    THEN [is_match |-> TRUE, line |-> 102,
          msg |-> <<"Verified! You drew ", detected_direction, ".">>]
    ELSE [is_match |-> FALSE, line |-> 104,
          msg |-> <<"Error: You drew ", detected_direction,
                    ", but we expected ", target, ".">>]

\* The locals of a call that has not assigned them yet; line 0: no call made.
NoFrame ==
    [line |-> 0, is_match |-> FALSE, msg |-> <<>>,
     x |-> NoValue, y |-> NoValue, w |-> NoValue, h |-> NoValue,
     m00 |-> NoValue, m10 |-> NoValue, m01 |-> NoValue,
     cX |-> NoValue, cY |-> NoValue, detected_direction |-> "Unknown"]

Return(f, line, is_match, msg) ==
    [f EXCEPT !.line = line, !.is_match = is_match, !.msg = msg]

\* verify_direction(canvas_data, target): the returned (is_match, msg), with
\* the line of the return statement taken and the locals at that point.
verify_direction(canvas_data, target) ==
    IF canvas_data = None
    THEN Return(NoFrame, 40, FALSE, <<"No drawing detected.">>)
    ELSE LET points == findNonZero(canvas_data) IN
    IF points = {}
    THEN Return(NoFrame, 62, FALSE, <<"Canvas is empty. Draw clearly!">>)
    ELSE LET r == boundingRect(points)
             f1 == [NoFrame EXCEPT !.x = r.x, !.y = r.y, !.w = r.w, !.h = r.h]
         IN
    IF TooTiny(r.w, r.h)
    THEN Return(f1, 69, FALSE, <<"Drawing too small. Please draw a bigger arrow.">>)
    ELSE LET M == moments(canvas_data, r)
             f2 == [f1 EXCEPT !.m00 = M.m00, !.m10 = M.m10, !.m01 = M.m01]
         IN
    IF M.m00 = 0
    THEN Return(f2, 77, FALSE, <<"Could not analyze shape.">>)
    ELSE LET cX == IntDiv(M.m10, M.m00)
             cY == IntDiv(M.m01, M.m00)
             detected_direction == Decide(r.w, r.h, cX, cY)
             v == FinalVerdict(detected_direction, target)
         IN Return([f2 EXCEPT !.cX = cX, !.cY = cY,
                              !.detected_direction = detected_direction],
                   v.line, v.is_match, v.msg)

(***************************************************************************)
(* The drawings the model classifies                                       *)
(***************************************************************************)
Margin == 2      \* white pixels left around a small drawing
Grow == 2        \* how far sizes range above the size floor
MaxElapsed == 6  \* the clock stops counting here

Sizes == {1} \cup ((SizeFloor - 1) .. (SizeFloor + Grow))
Channels == {3, 4}

\* A white buffer with nothing painted on it.
Blank(w, h, ch) == Buffer(w, h, ch, <<>>)

\* One filled wd x ht rectangle of colour c.
Box(wd, ht, c, ch) ==
    Buffer(wd + 2 * Margin, ht + 2 * Margin, ch,
           <<Rect(Margin, Margin, Margin + wd - 1, Margin + ht - 1, c)>>)

\* An arrow drawn as two rectangles: a shaft of thickness t along the whole
\* length L, and a head of width hw across the whole breadth T at the end the
\* arrow points to.
Arrow(dir, L, T, hw, t, c) ==
    LET off == (T - t) \div 2
        M == Margin
    IN CASE dir = "Right" ->
              Buffer(L + 2 * M, T + 2 * M, 4,
                     <<Rect(M, M + off, M + L - 1, M + off + t - 1, c),
                       Rect(M + L - hw, M, M + L - 1, M + T - 1, c)>>)
         [] dir = "Left" ->
              Buffer(L + 2 * M, T + 2 * M, 4,
                     <<Rect(M, M + off, M + L - 1, M + off + t - 1, c),
                       Rect(M, M, M + hw - 1, M + T - 1, c)>>)
         [] dir = "Down" ->
              Buffer(T + 2 * M, L + 2 * M, 4,
                     <<Rect(M + off, M, M + off + t - 1, M + L - 1, c),
                       Rect(M, M + L - hw, M + T - 1, M + L - 1, c)>>)
         [] dir = "Up" ->
              Buffer(T + 2 * M, L + 2 * M, 4,
                     <<Rect(M + off, M, M + off + t - 1, M + L - 1, c),
                       Rect(M, M, M + T - 1, M + hw - 1, c)>>)

\* A solid triangle pointing right, wd wide and ht high (ht odd, so that the
\* apex is a pixel), its base on the left edge of its box.
Triangle(wd, ht, c, ch) ==
    Buffer(wd + 2 * Margin, ht + 2 * Margin, ch,
           <<Tri(Margin, Margin, Margin + wd - 1, Margin + ht - 1, c)>>)

\* The 300 x 300 all-white RGBA image with a solid black triangle, apex
\* (250, 150), base corners (50, 100) and (50, 200).
Scenario == Buffer(CanvasWidth, CanvasHeight, 4, <<Tri(50, 100, 250, 200, Black)>>)

Boxes ==
    {Box(wd, ht, Black, 4) : wd \in Sizes, ht \in Sizes}
    \cup {Box(s, s, c, ch) : s \in {SizeFloor - 1, SizeFloor}, ch \in Channels,
                             c \in {Gray100, Gray101, Red, Green, Clear, White}}

Arrows ==
    {Arrow(dir, L, SizeFloor, hw, t, Black) :
        dir \in Directions, L \in SizeFloor .. (SizeFloor + Grow),
        hw \in {2, 8}, t \in {1, SizeFloor \div 2}}

Triangles ==
    {Triangle(SizeFloor + 1 + d + e, SizeFloor + 1 + d, Black, ch) :
        d \in {0, 2}, e \in 1 .. Grow, ch \in Channels}

Blanks == {Blank(SizeFloor + Grow, SizeFloor, ch) : ch \in Channels}

\* A box far from the diagonal of its buffer.
OffsetBox ==
    Buffer(2 * SizeFloor + Grow + 2 * Margin, SizeFloor + 2 * Margin, 4,
           <<Rect(SizeFloor + Grow + Margin, Margin,
                  2 * SizeFloor + Grow + Margin - 1, SizeFloor + Margin - 1, Black)>>)

\* One pixel of every gray level, on white.
GrayLevel(v) == <<v, v, v, 255>>
GrayDots == {Box(1, 1, GrayLevel(v), ch) : v \in 0 .. MaxVal, ch \in Channels}

Drawings == Blanks \cup Boxes \cup Arrows \cup Triangles \cup {OffsetBox}

\* The calls the classifier is checked on: every drawing and the absent one
\* with every target, the gray dots with one, the scenario image with three.
Calls ==
    ((Drawings \cup {None}) \X Directions)
    \cup (GrayDots \X {"Up"})
    \cup ({Scenario} \X {"Right", "Up", "Left"})

(***************************************************************************)
(* The classifier alone: one call of verify_direction per behaviour        *)
(***************************************************************************)
InitClassify ==
    /\ \E c \in Calls : image_data = c[1] /\ target_direction = c[2]
    /\ step = 2
    /\ elapsed = MaxElapsed
    /\ fields = {}
    /\ clicked = "none"
    /\ calls = 0
    /\ frame = NoFrame
    /\ shown = {}

Classify ==
    /\ calls = 0
    /\ frame' = verify_direction(image_data, target_direction)
    /\ calls' = 1
    /\ UNCHANGED <<step, elapsed, target_direction, fields, image_data, clicked, shown>>

NextClassify == Classify

SpecClassify == InitClassify /\ [][NextClassify]_vars

(***************************************************************************)
(* The script: st.session_state, the widgets and what a run renders        *)
(***************************************************************************)
AllFields == {"name", "email", "phone"}

Elem(kind, text) == [kind |-> kind, text |-> text]

\* What the canvas hands back once the user has touched it: the untouched
\* white surface, a dot, an arrow with a heavy head, the solid triangle.
CanvasBlank == Blank(CanvasWidth, CanvasHeight, 4)
CanvasDot == Buffer(CanvasWidth, CanvasHeight, 4, <<Rect(100, 100, 114, 114, Black)>>)
CanvasArrow ==
    Buffer(CanvasWidth, CanvasHeight, 4,
           <<Rect(60, 143, 240, 157, Black), Rect(200, 110, 240, 190, Black)>>)
CanvasDrawings == {CanvasBlank, CanvasDot, CanvasArrow, Scenario}

Min(a, b) == IF a < b THEN a ELSE b

\* lines 26-31: the first run of the script
Init ==
    /\ step = 1
    /\ elapsed = 0
    /\ target_direction \in Directions
    /\ fields = {}
    /\ image_data = None
    /\ clicked = "none"
    /\ calls = 0
    /\ frame = NoFrame
    /\ shown = {}

\* lines 123-124: rendered by every run of step 1 with the three fields filled
Step1Page(f) ==
    IF f = AllFields THEN {Elem("info", <<"Analyzing keystroke dynamics...">>)} ELSE {}

\* Time passes between two runs.
Tick ==
    /\ elapsed < MaxElapsed
    /\ elapsed' = elapsed + 1
    /\ UNCHANGED <<step, target_direction, fields, image_data, clicked, calls, frame, shown>>

\* lines 119-124: the user fills or empties a text input; the script reruns
EditField(f) ==
    /\ step = 1
    /\ fields' = IF f \in fields THEN fields \ {f} ELSE fields \cup {f}
    /\ shown' = Step1Page(fields')
    /\ clicked' = "none"
    /\ UNCHANGED <<step, elapsed, target_direction, image_data, calls, frame>>

\* lines 126-141: "Verify Identity" pressed.  On success st.rerun() starts a
\* run of step 2, which renders a fresh canvas and none of the text inputs.
VerifyIdentity ==
    /\ step = 1
    /\ IF fields = AllFields
       THEN IF elapsed < GateTicks
            THEN /\ shown' = Step1Page(fields) \cup
                        {Elem("error", <<"Suspicious activity (Too fast). Try again.">>)}
                 /\ elapsed' = 0
                 /\ clicked' = "Verify Identity"
                 /\ UNCHANGED <<step, fields, image_data>>
            ELSE /\ step' = 2
                 /\ elapsed' = Min(elapsed + SleepTicks, MaxElapsed)
                 /\ fields' = {}
                 /\ image_data' = None
                 /\ shown' = {}
                 /\ clicked' = "none"
       ELSE /\ shown' = Step1Page(fields) \cup
                   {Elem("warning", <<"Please fill in all details.">>)}
            /\ clicked' = "Verify Identity"
            /\ UNCHANGED <<step, elapsed, fields, image_data>>
    /\ UNCHANGED <<target_direction, calls, frame>>

\* lines 161-171: the user draws; the canvas hands back new image_data and
\* the script reruns with no button pressed
Draw(d) ==
    /\ step = 2
    /\ d # image_data
    /\ image_data' = d
    /\ clicked' = "none"
    /\ calls' = 0
    /\ frame' = NoFrame
    /\ shown' = {}
    /\ UNCHANGED <<step, elapsed, target_direction, fields>>

\* lines 183-196: "Unlock Access" pressed
UnlockAccess ==
    /\ step = 2
    /\ clicked' = "Unlock Access"
    /\ IF image_data # None
       THEN /\ frame' = verify_direction(image_data, target_direction)
            /\ calls' = 1
            /\ shown' =
                 IF frame'.is_match
                 THEN {Elem("balloons", <<>>),
                       Elem("success", <<"(party) ">> \o frame'.msg),
                       Elem("info", <<"SYSTEM UNLOCKED. You may proceed.">>)}
                 ELSE {Elem("error", <<"(cross) ">> \o frame'.msg),
                       Elem("warning", <<"Tip: Draw the arrow head clearly so we know which way it points.">>)}
       ELSE /\ frame' = NoFrame
            /\ calls' = 0
            /\ shown' = {}
    /\ UNCHANGED <<step, elapsed, target_direction, fields, image_data>>

\* lines 199-203: "Reset Prototype" pressed; st.rerun() starts a run of step 1
ResetPrototype ==
    /\ step = 2
    /\ step' = 1
    /\ elapsed' = 0
    /\ target_direction' \in Directions
    /\ fields' = {}
    /\ image_data' = None
    /\ clicked' = "none"
    /\ calls' = 0
    /\ frame' = NoFrame
    /\ shown' = {}

Next ==
    \/ Tick
    \/ \E f \in AllFields : EditField(f)
    \/ VerifyIdentity
    \/ \E d \in CanvasDrawings : Draw(d)
    \/ UnlockAccess
    \/ ResetPrototype

Spec == Init /\ [][Next]_vars

(***************************************************************************)
(* Properties                                                              *)
(***************************************************************************)
\* A call of verify_direction has returned.
Returned == calls = 1

\* The call reached the final verdict of lines 101-104.
ReachedVerdict == Returned /\ frame.line \in {102, 104}

MatchMsg(d) == <<"Verified! You drew ", d, ".">>
MismatchMsg(d, t) == <<"Error: You drew ", d, ", but we expected ", t, ".">>

\* The buffer is one solid ink triangle pointing right on white.
IsRightTriangle(d) ==
    /\ d # None
    /\ Len(d.prims) = 1
    /\ d.prims[1].k = "tri"
    /\ d.prims[1].c = Black
    /\ d.prims[1].x0 < d.prims[1].x1

\* C1 as stated: a solid triangle pointing right in a box with w > h has its
\* centroid x beyond w/2 and is detected Right; the scenario image with target
\* Right is a Match naming Right.
C1_Original ==
    (ReachedVerdict /\ IsRightTriangle(image_data) /\ frame.w > frame.h) =>
        /\ 2 * frame.m10 > frame.w * frame.m00
        /\ frame.detected_direction = "Right"
        /\ (image_data = Scenario /\ target_direction = "Right") =>
                (frame.is_match /\ frame.msg = MatchMsg("Right"))

\* C1 amended: a solid triangle pointing right (apex right, base on the left
\* edge) whose box passes the size floor with w > h has its centroid x below
\* w/2 and is detected Left; the scenario image is a Mismatch naming Left and
\* Right with target Right, and a Match naming Left with target Left.
C1_Amended ==
    (ReachedVerdict /\ IsRightTriangle(image_data) /\ frame.w > frame.h) =>
        /\ 2 * frame.m10 < frame.w * frame.m00
        /\ frame.detected_direction = "Left"
        /\ (image_data = Scenario /\ target_direction = "Right") =>
                (~frame.is_match /\ frame.msg = MismatchMsg("Left", "Right"))
        /\ (image_data = Scenario /\ target_direction = "Left") =>
                (frame.is_match /\ frame.msg = MatchMsg("Left"))

C1_Witness ==
    /\ ReachedVerdict
    /\ image_data = Scenario
    /\ target_direction = "Right"
    /\ frame.w = 201 /\ frame.h = 101
    /\ frame.detected_direction = "Left"

\* The info element a Match renders.
Unlocked == Elem("info", <<"SYSTEM UNLOCKED. You may proceed.">>) \in shown

\* The last run was a submit whose verdict was not a Match.
SubmitFailed == clicked = "Unlock Access" /\ calls = 1 /\ ~frame.is_match

\* C2 as stated: once a submit has matched, the flow is unlocked and no
\* transition leaves that state; a submit that does not match leaves the flow
\* in step 2 with the same target.
C2_Original ==
    [][/\ Unlocked => Unlocked'
       /\ SubmitFailed' => (step' = 2 /\ target_direction' = target_direction)]_vars

\* The black boxes whose geometry is known: wd x ht ink pixels.
IsBlackBox(d, wd, ht) == d = Box(wd, ht, Black, 4)

\* C3: with ink present, the verdict is TooSmall (the return of line 69)
\* exactly when the ink's bounding box is narrower or lower than 30: a 29x29
\* box is TooSmall for every target, a box of 30 or more both ways never is
\* and goes on to the direction analysis.
C3_SizeFloor ==
    (Returned /\ frame.line \notin {40, 62}) =>
        /\ frame.line = 69 <=> (frame.w < SizeFloor \/ frame.h < SizeFloor)
        /\ frame.line # 69 => frame.detected_direction \in Directions
        /\ \A wd \in Sizes, ht \in Sizes :
              IsBlackBox(image_data, wd, ht) =>
                /\ frame.w = wd /\ frame.h = ht
                /\ frame.line = 69 <=> (wd < SizeFloor \/ ht < SizeFloor)
        /\ IsBlackBox(image_data, SizeFloor - 1, SizeFloor - 1) =>
              (frame.line = 69 /\ ~frame.is_match
               /\ frame.msg = <<"Drawing too small. Please draw a bigger arrow.">>)

C3_Witness ==
    /\ Returned
    /\ IsBlackBox(image_data, SizeFloor - 1, SizeFloor - 1)
    /\ target_direction = "Down"
    /\ frame.line = 69

\* C4: a square bounding box (w = h, both at least 30) is detected Up or
\* Down, never Left or Right, wherever the ink lies in it.
C4_SquareIsVertical ==
    (ReachedVerdict /\ frame.w = frame.h) =>
        frame.detected_direction \in {"Up", "Down"}

\* a square box whose ink lies to the right
C4_Witness ==
    /\ ReachedVerdict
    /\ frame.w = frame.h
    /\ frame.w >= SizeFloor
    /\ 2 * frame.cX > frame.w
    /\ frame.detected_direction \in {"Up", "Down"}

\* Every pixel of the buffer has a luminance above the threshold.
NoInk(d) ==
    /\ d # None
    /\ \A i \in 1 .. Len(d.prims) :
          cvtColorGray(SubSeq(d.prims[i].c, 1, d.ch)) > ThreshValue

\* C5: a present buffer without ink gets the EmptyCanvas verdict (the return
\* of line 62, not a match) whatever the target, before any of the size or
\* direction analysis has run.
C5_EmptyCanvas ==
    (Returned /\ NoInk(image_data)) =>
        /\ frame.line = 62
        /\ ~frame.is_match
        /\ frame.msg = <<"Canvas is empty. Draw clearly!">>
        /\ frame.w = NoValue /\ frame.h = NoValue /\ frame.m00 = NoValue
        /\ frame.detected_direction = "Unknown"

\* a buffer painted in a light colour only
C5_Witness ==
    /\ Returned
    /\ NoInk(image_data)
    /\ Len(image_data.prims) = 1
    /\ image_data.prims[1].c = Gray101
    /\ target_direction = "Right"
    /\ frame.line = 62

\* The buffer is one pixel of gray level v on white.
IsGrayDot(d) ==
    /\ d # None
    /\ Len(d.prims) = 1
    /\ d.prims[1].k = "rect"
    /\ d.prims[1].x0 = d.prims[1].x1 /\ d.prims[1].y0 = d.prims[1].y1
    /\ d.prims[1].c[1] = d.prims[1].c[2] /\ d.prims[1].c[2] = d.prims[1].c[3]

\* C6: for every luminance 0..255, a pixel at or below 100 is ink (it alone
\* is found, so the call goes on to the size check) and a pixel at 101 or
\* above is background (no ink is found).
C6_ThresholdBoundary ==
    (Returned /\ IsGrayDot(image_data)) =>
        LET v == image_data.prims[1].c[1]
        IN /\ v <= ThreshValue =>
                /\ frame.line = 69
                /\ frame.x = image_data.prims[1].x0 /\ frame.y = image_data.prims[1].y0
                /\ frame.w = 1 /\ frame.h = 1
           /\ v >= ThreshValue + 1 => frame.line = 62

C6_Witness ==
    /\ Returned
    /\ IsGrayDot(image_data)
    /\ image_data.prims[1].c = GrayLevel(ThreshValue)
    /\ frame.line = 69

\* The verdict part of C7, without its example.
C7_Verdict ==
    /\ frame.detected_direction \in Directions
    /\ frame.is_match <=> (frame.detected_direction = target_direction)
    /\ frame.is_match => frame.msg = MatchMsg(frame.detected_direction)
    /\ ~frame.is_match =>
          frame.msg = MismatchMsg(frame.detected_direction, target_direction)

\* C7 as stated: at the final verdict the flag is true exactly when detected
\* equals target, the Match message names the detected direction, the
\* Mismatch message the detected and the expected one, the detected label is
\* never Unknown; the triangle image with target Up is a Mismatch naming
\* Right and Up.
C7_Original ==
    ReachedVerdict =>
        /\ C7_Verdict
        /\ (image_data = Scenario /\ target_direction = "Up") =>
              (~frame.is_match /\ frame.msg = MismatchMsg("Right", "Up"))

\* C7 amended: the same, the triangle image with target Up being a Mismatch
\* naming Left (detected) and Up (expected).
C7_Amended ==
    ReachedVerdict =>
        /\ C7_Verdict
        /\ (image_data = Scenario /\ target_direction = "Up") =>
              (~frame.is_match /\ frame.msg = MismatchMsg("Left", "Up"))

C7_Witness ==
    /\ ReachedVerdict
    /\ image_data = Scenario
    /\ target_direction = "Up"
    /\ frame.line = 104

\* C8 as stated: every press of "Unlock Access" calls the classifier exactly
\* once; with no buffer the call returns the NoDrawing verdict, which is shown.
C8_Original ==
    clicked = "Unlock Access" =>
        /\ calls = 1
        /\ image_data = None =>
              /\ frame.line = 40
              /\ Elem("error", <<"(cross) ", "No drawing detected.">>) \in shown

\* The direction the exact centroid (m10/m00, m01/m00) gives.
ExactDecide(w, h, m00, m10, m01) ==
    IF w > h
    THEN IF 2 * m10 > w * m00 THEN "Right" ELSE "Left"
    ELSE IF 2 * m01 > h * m00 THEN "Down" ELSE "Up"

\* C9 as stated: the polarity is decided by the exact centroid: Right exactly
\* when m10/m00 > w/2 in a horizontal box, Down exactly when m01/m00 > h/2 in
\* a vertical one.
C9_Original ==
    ReachedVerdict =>
        frame.detected_direction =
            ExactDecide(frame.w, frame.h, frame.m00, frame.m10, frame.m01)

\* C10: no call returns "Could not analyze shape." (line 77): past the
\* emptiness and size checks the zeroth moment of the crop is positive, and
\* every call returns from one of lines 40, 62, 69, 102, 104.
C10_ShapeAnalyzable ==
    Returned =>
        /\ frame.line \in {40, 62, 69, 102, 104}
        /\ frame.line \in {102, 104} => frame.m00 >= MaxVal
        /\ (image_data # None /\ frame.line \notin {62, 69}) => frame.m00 > 0

\* a box far from the buffer's diagonal passes both checks and has ink mass
C10_Witness ==
    /\ ReachedVerdict
    /\ image_data = OffsetBox
    /\ frame.m00 = SizeFloor * SizeFloor * MaxVal

====
